---- MODULE Spec2Model ----
(***************************************************************************)
(* A model of the `stor` crate (src/src/lib.rs): the Stor trait, its four  *)
(* strategy markers (Owned, Ref, Const<N>, Heapless<N>) and the container  *)
(* types each one selects for the List, String and Bytes shapes.           *)
(*                                                                         *)
(* The crate is a type-level contract, so the state machine is a client    *)
(* program in the style of the crate's doc example: it declares a type     *)
(* generic over `S: Stor<Inner>`, instantiates it with one strategy and    *)
(* one value, and then uses the value it holds (push, as_ref, drop).  The  *)
(* build either accepts a step (bounds, cfg gates and types agree) or      *)
(* rejects it; a rejected program never reaches the running phase.         *)
(***************************************************************************)
EXTENDS Integers, Sequences, FiniteSets, TLC

\* Longest content (elements, bytes or characters) a value is built with or
\* grown to.
MaxLen == 3
\* Largest capacity constant N tried for Const<N> and Heapless<N>.
MaxN == 3
\* The capacity of the doc example's `stor::Const<3>`.
DocN == 3

Ns == 0..MaxN

\* Element and byte values (0xaa, 0xbb of the doc example).
Vals == {170, 187}
\* Characters: 'a' (one UTF-8 byte) and U+00E9 (two UTF-8 bytes).
Chars == {97, 233}

SeqsUpTo(S, n) == UNION {[1..k -> S] : k \in 0..n}
Contents == SeqsUpTo(Vals, MaxLen)
Texts == SeqsUpTo(Chars, MaxLen)

\* ------------------------------------------------------------------ types

\* Candidate element types, by the capabilities they implement.  "unit" is
\* the trait's default `Inner = ()`.
ElemTypes ==
    { [name |-> "unit",      clone |-> TRUE,  debug |-> TRUE],
      [name |-> "u8",        clone |-> TRUE,  debug |-> TRUE],
      [name |-> "DebugOnly", clone |-> FALSE, debug |-> TRUE],
      [name |-> "CloneOnly", clone |-> TRUE,  debug |-> FALSE] }
NoElem == [name |-> "None", clone |-> FALSE, debug |-> FALSE]

\* The strategy markers.
Owned == [tag |-> "Owned", n |-> 0]
Ref == [tag |-> "Ref", n |-> 0]
Const(N) == [tag |-> "Const", n |-> N]
Heapless(N) == [tag |-> "Heapless", n |-> N]
NoStrat == [tag |-> "None", n |-> 0]
Strategies == {Owned, Ref} \cup {Const(N) : N \in Ns} \cup {Heapless(N) : N \in Ns}

Shapes == {"List", "String", "Bytes"}

\* A container type: its constructor, element parameter ("Inner" for the
\* trait's type parameter, "u8", or "-" for text), capacity parameter and
\* lifetime ("a" for the borrow scope, "static", or "-" for owned values).
Ty(kind, elem, n, life) == [kind |-> kind, elem |-> elem, n |-> n, life |-> life]
NoTy == Ty("None", "-", 0, "-")

\* The contract's bound as it would be with Clone demanded by the trait too.
StorInnerBoundClone(E) == E.clone /\ E.debug

\* `pub trait Stor<Inner: Debug = ()>: Debug`: the contract's bound on Inner.
StorInnerBound(E) == E.debug

\* `impl <T: Clone + Debug, ..> Stor<T> for ..`: the bound every provided
\* strategy puts on the element type.
ImplBound(S, E) == E.clone /\ E.debug

\* The strategies with the cfg gates left off.
AvailableUngated(S, f) == TRUE

\* The cfg gates: `#[cfg(feature = "alloc")]` on Owned and
\* `#[cfg(feature = "heapless")]` on Heapless; Ref and Const are ungated.
Available(S, f) ==
    CASE S.tag = "Owned" -> f.alloc
      [] S.tag = "Heapless" -> f.heapless
      [] OTHER -> TRUE

\* Owned's List written with the byte buffer's type, `Vec<u8>`.
ListOfByteVec(S) ==
    CASE S.tag = "Owned" -> Ty("Vec", "u8", 0, "-")
      [] S.tag = "Ref" -> Ty("Slice", "Inner", 0, "a")
      [] S.tag = "Const" -> Ty("Array", "Inner", S.n, "-")
      [] S.tag = "Heapless" -> Ty("HVec", "Inner", S.n, "-")
      [] OTHER -> NoTy

\* Ref's List written as an owning `Vec<T>`, a copy of the source.
ListOfRefCopies(S) ==
    CASE S.tag = "Owned" -> Ty("Vec", "Inner", 0, "-")
      [] S.tag = "Ref" -> Ty("Vec", "Inner", 0, "-")
      [] S.tag = "Const" -> Ty("Array", "Inner", S.n, "-")
      [] S.tag = "Heapless" -> Ty("HVec", "Inner", S.n, "-")
      [] OTHER -> NoTy

\* Heapless's List with one slot too many, `heapless::Vec<T, {N + 1}>`.
ListOfHeaplessOffByOne(S) ==
    CASE S.tag = "Owned" -> Ty("Vec", "Inner", 0, "-")
      [] S.tag = "Ref" -> Ty("Slice", "Inner", 0, "a")
      [] S.tag = "Const" -> Ty("Array", "Inner", S.n, "-")
      [] S.tag = "Heapless" -> Ty("HVec", "Inner", S.n + 1, "-")
      [] OTHER -> NoTy

\* `type List = ..` of each impl.
ListOf(S) ==
    CASE S.tag = "Owned" -> Ty("Vec", "Inner", 0, "-")
      [] S.tag = "Ref" -> Ty("Slice", "Inner", 0, "a")
      [] S.tag = "Const" -> Ty("Array", "Inner", S.n, "-")
      [] S.tag = "Heapless" -> Ty("HVec", "Inner", S.n, "-")
      [] OTHER -> NoTy

\* Const's String written as a byte array, `[u8; N]`.
StringOfConstBytes(S) ==
    CASE S.tag = "Owned" -> Ty("String", "-", 0, "-")
      [] S.tag = "Ref" -> Ty("Str", "-", 0, "a")
      [] S.tag = "Const" -> Ty("Array", "u8", S.n, "-")
      [] S.tag = "Heapless" -> Ty("HString", "-", S.n, "-")
      [] OTHER -> NoTy

\* Owned's String written with the byte buffer's type, `Vec<u8>`.
StringOfOwnedBytes(S) ==
    CASE S.tag = "Owned" -> Ty("Vec", "u8", 0, "-")
      [] S.tag = "Ref" -> Ty("Str", "-", 0, "a")
      [] S.tag = "Const" -> Ty("Str", "-", 0, "static")
      [] S.tag = "Heapless" -> Ty("HString", "-", S.n, "-")
      [] OTHER -> NoTy

\* Const's String sized by N, a text buffer of capacity N.
StringOfConstSized(S) ==
    CASE S.tag = "Owned" -> Ty("String", "-", 0, "-")
      [] S.tag = "Ref" -> Ty("Str", "-", 0, "a")
      [] S.tag = "Const" -> Ty("HString", "-", S.n, "-")
      [] S.tag = "Heapless" -> Ty("HString", "-", S.n, "-")
      [] OTHER -> NoTy

\* `type String = ..` of each impl.
StringOf(S) ==
    CASE S.tag = "Owned" -> Ty("String", "-", 0, "-")
      [] S.tag = "Ref" -> Ty("Str", "-", 0, "a")
      [] S.tag = "Const" -> Ty("Str", "-", 0, "static")
      [] S.tag = "Heapless" -> Ty("HString", "-", S.n, "-")
      [] OTHER -> NoTy

\* Const's Bytes written with the List's type, `[T; N]`.
BytesOfInnerArray(S) ==
    CASE S.tag = "Owned" -> Ty("Vec", "u8", 0, "-")
      [] S.tag = "Ref" -> Ty("Slice", "u8", 0, "a")
      [] S.tag = "Const" -> Ty("Array", "Inner", S.n, "-")
      [] S.tag = "Heapless" -> Ty("HVec", "u8", S.n, "-")
      [] OTHER -> NoTy

\* Const's Bytes written without its size, a growable `Vec<u8>`.
BytesOfConstVec(S) ==
    CASE S.tag = "Owned" -> Ty("Vec", "u8", 0, "-")
      [] S.tag = "Ref" -> Ty("Slice", "u8", 0, "a")
      [] S.tag = "Const" -> Ty("Vec", "u8", 0, "-")
      [] S.tag = "Heapless" -> Ty("HVec", "u8", S.n, "-")
      [] OTHER -> NoTy

\* `type Bytes = ..` of each impl.
BytesOf(S) ==
    CASE S.tag = "Owned" -> Ty("Vec", "u8", 0, "-")
      [] S.tag = "Ref" -> Ty("Slice", "u8", 0, "a")
      [] S.tag = "Const" -> Ty("Array", "u8", S.n, "-")
      [] S.tag = "Heapless" -> Ty("HVec", "u8", S.n, "-")
      [] OTHER -> NoTy

ShapeTy(S, sh) ==
    CASE sh = "List" -> ListOf(S)
      [] sh = "String" -> StringOf(S)
      [] sh = "Bytes" -> BytesOf(S)
      [] OTHER -> NoTy

\* The element type a type's parameter stands for once Inner is E.
Resolve(elem, E) == IF elem = "Inner" THEN E.name ELSE elem

\* What a container type can be viewed as through AsRef: a slice of its
\* element type, or text.
ViewTarget(ty, E) ==
    CASE ty.kind \in {"Vec", "Slice", "Array", "HVec"} -> Resolve(ty.elem, E)
      [] ty.kind \in {"String", "Str", "HString"} -> "str"
      [] OTHER -> "none"

\* The bounds on the associated types: `List: AsRef<[Inner]>`,
\* `String: AsRef<str>`, `Bytes: AsRef<[u8]>`.
ShapeBound(sh, ty, E) ==
    CASE sh = "List" -> ViewTarget(ty, E) = E.name
      [] sh = "String" -> ViewTarget(ty, E) = "str"
      [] sh = "Bytes" -> ViewTarget(ty, E) = "u8"
      [] OTHER -> FALSE

\* An impl type-checks only when each of its three associated types
\* satisfies the trait's bound on it.
ImplWellFormed(S, E) == \A sh \in Shapes : ShapeBound(sh, ShapeTy(S, sh), E)

\* A value of type vt can be stored where type st is expected: the same
\* constructor, element type and capacity; a `'static` reference serves for
\* any borrow scope, a scoped one does not serve for `'static`.
Assignable(vt, st, E) ==
    /\ vt.kind = st.kind
    /\ Resolve(vt.elem, E) = Resolve(st.elem, E)
    /\ vt.n = st.n
    /\ (st.life = "static" => vt.life = "static")
    /\ (st.life = "-" <=> vt.life = "-")

\* ------------------------------------------------------------ values

\* UTF-8, as `str` stores text: one byte below U+0080, two below U+0800.
Utf8Char(c) == IF c < 128 THEN <<c>> ELSE <<192 + (c \div 64), 128 + (c % 64)>>

RECURSIVE Utf8Encode(_)
Utf8Encode(t) == IF t = <<>> THEN <<>> ELSE Utf8Char(Head(t)) \o Utf8Encode(Tail(t))

RECURSIVE Utf8Decode(_)
Utf8Decode(b) ==
    IF b = <<>> THEN <<>>
    ELSE IF b[1] < 128 THEN <<b[1]>> \o Utf8Decode(Tail(b))
    ELSE <<(b[1] - 192) * 64 + (b[2] - 128)>> \o Utf8Decode(Tail(Tail(b)))

\* The byte strings that are the UTF-8 of a text.
TextBytes == {Utf8Encode(t) : t \in Texts}

\* A value held by the program.  Owned containers (Vec, String, arrays) carry
\* their content in buf; the heapless containers carry an inline buffer of
\* exactly N slots of which the first len are in use; references (Slice, Str)
\* carry no content, only the offset and length of a range of the source.
Obj(kind, buf, len, off) == [kind |-> kind, buf |-> buf, len |-> len, off |-> off]
NoObj == Obj("None", <<>>, 0, 0)

\* The memory a reference borrows from or a copy was taken from.
Mem(data, static, text) == [some |-> TRUE, data |-> data, static |-> static, text |-> text]
NoMem == [some |-> FALSE, data |-> <<>>, static |-> FALSE, text |-> FALSE]

Zeros(n) == [i \in 1..n |-> 0]

\* The expressions a program builds its value with.
Expr(form, elem, content, off, len, n) ==
    [form |-> form, elem |-> elem, content |-> content, off |-> off, len |-> len, n |-> n]

Ranges(c) == {r \in (0..MaxLen) \X (0..MaxLen) : r[1] + r[2] <= Len(c)}

Exprs ==
    \* vec![..]  and  [..]
    {Expr(f, el, c, 0, Len(c), 0) : f \in {"vec", "array"}, el \in {"Inner", "u8"}, c \in Contents}
    \* source[a..b].to_vec()  and  &source[a..b]
    \cup UNION {{Expr(f, el, c, r[1], r[2], 0) : f \in {"to_vec", "slice"}, el \in {"Inner", "u8"}, r \in Ranges(c)} : c \in Contents}
    \* ".."  and  "..".to_string()  and  &source (a local string)
    \cup {Expr(f, "-", t, 0, Len(Utf8Encode(t)), 0) : f \in {"str_lit", "to_string", "str_ref"}, t \in Texts}
    \* heapless::Vec::<_, N>::new()
    \cup {Expr("hvec", el, <<>>, 0, 0, n) : el \in {"Inner", "u8"}, n \in Ns}
    \* heapless::String::<N>::new()
    \cup {Expr("hstring", "-", <<>>, 0, 0, n) : n \in Ns}

TypeOfExpr(e) ==
    CASE e.form \in {"vec", "to_vec"} -> Ty("Vec", e.elem, 0, "-")
      [] e.form = "array" -> Ty("Array", e.elem, Len(e.content), "-")
      [] e.form = "slice" -> Ty("Slice", e.elem, 0, "a")
      [] e.form = "hvec" -> Ty("HVec", e.elem, e.n, "-")
      [] e.form = "to_string" -> Ty("String", "-", 0, "-")
      [] e.form = "str_lit" -> Ty("Str", "-", 0, "static")
      [] e.form = "str_ref" -> Ty("Str", "-", 0, "a")
      [] e.form = "hstring" -> Ty("HString", "-", e.n, "-")
      [] OTHER -> NoTy

Range(data, off, len) == SubSeq(data, off + 1, off + len)

\* The value, the source memory and the content an expression evaluates to.
MakeObj(e) ==
    CASE e.form = "vec" ->
           [obj |-> Obj("Vec", e.content, Len(e.content), 0), mem |-> NoMem, made |-> e.content]
      [] e.form = "to_vec" ->
           [obj |-> Obj("Vec", Range(e.content, e.off, e.len), e.len, 0),
            mem |-> Mem(e.content, FALSE, FALSE), made |-> Range(e.content, e.off, e.len)]
      [] e.form = "array" ->
           [obj |-> Obj("Array", e.content, Len(e.content), 0), mem |-> NoMem, made |-> e.content]
      [] e.form = "slice" ->
           [obj |-> Obj("Slice", <<>>, e.len, e.off),
            mem |-> Mem(e.content, FALSE, FALSE), made |-> Range(e.content, e.off, e.len)]
      [] e.form = "hvec" ->
           [obj |-> Obj("HVec", Zeros(e.n), 0, 0), mem |-> NoMem, made |-> <<>>]
      [] e.form = "to_string" ->
           [obj |-> Obj("String", Utf8Encode(e.content), e.len, 0), mem |-> NoMem, made |-> e.content]
      [] e.form = "str_lit" ->
           [obj |-> Obj("Str", <<>>, e.len, 0),
            mem |-> Mem(Utf8Encode(e.content), TRUE, TRUE), made |-> e.content]
      [] e.form = "str_ref" ->
           [obj |-> Obj("Str", <<>>, e.len, 0),
            mem |-> Mem(Utf8Encode(e.content), FALSE, TRUE), made |-> e.content]
      [] e.form = "hstring" ->
           [obj |-> Obj("HString", Zeros(e.n), 0, 0), mem |-> NoMem, made |-> <<>>]
      [] OTHER -> [obj |-> NoObj, mem |-> NoMem, made |-> <<>>]

\* The stored units a value exposes: a reference reads the range of its
\* source, every other container the used part of its own buffer.
Raw(o, m) ==
    IF o.kind \in {"Slice", "Str"} THEN Range(m.data, o.off, o.len)
    ELSE SubSeq(o.buf, 1, o.len)

\* `AsRef<[Inner]>` of a List value.
AsRefList(o, m) == Raw(o, m)
\* `AsRef<str>` of a String value.
AsRefStr(o, m) == Utf8Decode(Raw(o, m))
\* `AsRef<[u8]>` of a Bytes value.
AsRefBytes(o, m) == Raw(o, m)

View(sh, o, m) ==
    CASE sh = "List" -> AsRefList(o, m)
      [] sh = "String" -> AsRefStr(o, m)
      [] sh = "Bytes" -> AsRefBytes(o, m)
      [] OTHER -> <<>>

\* A live reference keeps its source borrowed.
Borrowed(o) == o.kind \in {"Slice", "Str"}

\* ------------------------------------------------------------- state

VARIABLES
    features,   \* the build configuration: which cargo features are on
    phase,      \* "edit", "declared", "rejected" or "running"
    inner,      \* the element type of the declared `S: Stor<Inner>`
    sel,        \* the instantiation attempted: strategy, shape, value type, range
    obj,        \* the value the program holds
    mem,        \* the source memory of a borrow or copy
    made,       \* the content the value was constructed with and pushed
    res         \* the outcome of the last call on the value

vars == <<features, phase, inner, sel, obj, mem, made, res>>

Sel(S, sh, vty, off, len) == [strat |-> S, shape |-> sh, vty |-> vty, off |-> off, len |-> len]
NoSel == Sel(NoStrat, "None", NoTy, 0, 0)

Res(op, ok, val) == [op |-> op, ok |-> ok, val |-> val]
NoRes == Res("none", TRUE, <<>>)

Init ==
    /\ features \in [alloc : BOOLEAN, heapless : BOOLEAN]
    /\ phase = "edit"
    /\ inner = NoElem
    /\ sel = NoSel
    /\ obj = NoObj
    /\ mem = NoMem
    /\ made = <<>>
    /\ res = NoRes

\* The program declares a type generic over `S: Stor<E>`.
Declare(E) ==
    /\ phase = "edit"
    /\ inner' = E
    /\ phase' = IF StorInnerBound(E) THEN "declared" ELSE "rejected"
    /\ UNCHANGED <<features, sel, obj, mem, made, res>>

\* Whether the build accepts the generic type instantiated with strategy S
\* holding the value of expression e in shape sh.
Accepts(S, sh, e) ==
    /\ Available(S, features)
    /\ ImplBound(S, inner)
    /\ ImplWellFormed(S, inner)
    /\ Assignable(TypeOfExpr(e), ShapeTy(S, sh), inner)

\* The program instantiates the type with strategy S and constructs the
\* variant of shape sh from expression e.
Instantiate(S, sh, e) ==
    /\ phase = "declared"
    /\ sel' = Sel(S, sh, TypeOfExpr(e), e.off, e.len)
    /\ IF Accepts(S, sh, e)
       THEN /\ phase' = "running"
            /\ obj' = MakeObj(e).obj
            /\ mem' = MakeObj(e).mem
            /\ made' = MakeObj(e).made
       ELSE /\ phase' = "rejected"
            /\ UNCHANGED <<obj, mem, made>>
    /\ UNCHANGED <<features, inner, res>>

\* alloc::vec::Vec::push: appends (growth capped at MaxLen in the model).
PushVec(v) ==
    /\ phase = "running"
    /\ obj.kind = "Vec"
    /\ obj.len < MaxLen
    /\ obj' = Obj("Vec", Append(obj.buf, v), obj.len + 1, 0)
    /\ made' = Append(made, v)
    /\ res' = Res("push", TRUE, <<v>>)
    /\ UNCHANGED <<features, phase, inner, sel, mem>>

\* alloc::string::String::push: appends the character's UTF-8 bytes.
PushString(c) ==
    /\ phase = "running"
    /\ obj.kind = "String"
    /\ Len(made) < MaxLen
    /\ obj' = Obj("String", obj.buf \o Utf8Char(c), obj.len + Len(Utf8Char(c)), 0)
    /\ made' = Append(made, c)
    /\ res' = Res("push", TRUE, <<c>>)
    /\ UNCHANGED <<features, phase, inner, sel, mem>>

\* heapless::Vec::push: Err(item) when the buffer is full.
PushHeapless(v) ==
    /\ phase = "running"
    /\ obj.kind = "HVec"
    /\ IF obj.len < Len(obj.buf)
       THEN /\ obj' = Obj("HVec", [obj.buf EXCEPT ![obj.len + 1] = v], obj.len + 1, 0)
            /\ made' = Append(made, v)
            /\ res' = Res("push", TRUE, <<v>>)
       ELSE /\ res' = Res("push", FALSE, <<v>>)
            /\ UNCHANGED <<obj, made>>
    /\ UNCHANGED <<features, phase, inner, sel, mem>>

\* The buffer b with the bytes s written from position at + 1.
Write(b, at, s) == [i \in 1..Len(b) |-> IF i > at /\ i <= at + Len(s) THEN s[i - at] ELSE b[i]]

\* heapless::String::push: Err(()) when the character's bytes do not fit.
PushHeaplessString(c) ==
    /\ phase = "running"
    /\ obj.kind = "HString"
    /\ IF obj.len + Len(Utf8Char(c)) <= Len(obj.buf)
       THEN /\ obj' = Obj("HString", Write(obj.buf, obj.len, Utf8Char(c)), obj.len + Len(Utf8Char(c)), 0)
            /\ made' = Append(made, c)
            /\ res' = Res("push", TRUE, <<c>>)
       ELSE /\ res' = Res("push", FALSE, <<c>>)
            /\ UNCHANGED <<obj, made>>
    /\ UNCHANGED <<features, phase, inner, sel, mem>>

\* The program reads the value through the shape's read-only view.
AsRef ==
    /\ phase = "running"
    /\ obj # NoObj
    /\ res' = Res("as_ref", TRUE, View(sel.shape, obj, mem))
    /\ UNCHANGED <<features, phase, inner, sel, obj, mem, made>>

\* What the owner can make of its memory in one step: an element or byte
\* buffer with one position overwritten, a string assigned another text.
SourceWrites(m) ==
    IF m.text THEN TextBytes
    ELSE {[m.data EXCEPT ![i] = v] : i \in 1..Len(m.data), v \in Vals}

\* The owner of the source memory overwrites it; the borrow rules allow
\* this only while no reference to it is live, and never for static data.
MutateSource(c) ==
    /\ phase = "running"
    /\ mem.some
    /\ ~mem.static
    /\ ~Borrowed(obj)
    /\ c # mem.data
    /\ mem' = [mem EXCEPT !.data = c]
    /\ res' = NoRes
    /\ UNCHANGED <<features, phase, inner, sel, obj, made>>

\* The value goes out of scope.
Drop ==
    /\ phase = "running"
    /\ obj # NoObj
    /\ obj' = NoObj
    /\ res' = NoRes
    /\ UNCHANGED <<features, phase, inner, sel, mem, made>>

\* The program is rewritten and built again under the same configuration.
Reset ==
    /\ phase # "edit"
    /\ phase' = "edit"
    /\ inner' = NoElem
    /\ sel' = NoSel
    /\ obj' = NoObj
    /\ mem' = NoMem
    /\ made' = <<>>
    /\ res' = NoRes
    /\ UNCHANGED features

Next ==
    \/ \E E \in ElemTypes : Declare(E)
    \/ phase = "declared" /\ \E S \in Strategies, sh \in Shapes, e \in Exprs : Instantiate(S, sh, e)
    \/ \E v \in Vals : PushVec(v)
    \/ \E c \in Chars : PushString(c)
    \/ \E v \in Vals : PushHeapless(v)
    \/ \E c \in Chars : PushHeaplessString(c)
    \/ AsRef
    \/ mem.some /\ \E c \in SourceWrites(mem) : MutateSource(c)
    \/ Drop
    \/ Reset

Spec == Init /\ [][Next]_vars

\* ------------------------------------------------------------ properties

Running == phase = "running"
Live == phase = "running" /\ obj # NoObj
Read == phase = "running" /\ res.op = "as_ref"
ValidInner == inner.clone /\ inner.debug

\* C1: a byte sequence of length 3 stored as the Bytes shape of Owned
\* (Vec<u8>), of Ref (&[u8]) and of Const<3> ([u8; 3]) is accepted by each of
\* the three, and the read-only byte view of each yields that same sequence.
C1_BytesSameAcrossStrategies ==
    (sel.shape = "Bytes" /\ ValidInner) =>
        /\ (sel.strat = Owned /\ features.alloc /\ sel.vty = Ty("Vec", "u8", 0, "-"))
              => Running
        /\ (sel.strat = Ref /\ sel.vty = Ty("Slice", "u8", 0, "a")) => Running
        /\ (sel.strat = Const(DocN) /\ sel.vty = Ty("Array", "u8", DocN, "-")) => Running
        /\ (sel.strat \in {Owned, Ref, Const(DocN)} /\ Len(made) = DocN) =>
              /\ Live => AsRefBytes(obj, mem) = made
              /\ Read => res.val = made

C1_Witness ==
    /\ Read
    /\ sel.strat = Const(DocN)
    /\ sel.shape = "Bytes"
    /\ res.val = <<170, 187, 187>>

\* C2: for every strategy and every element type within its bounds, a value
\* of the strategy's List type is accepted, and its read-only sequence view
\* holds exactly the elements it was constructed with and then pushed, in
\* that order.
C2_ListViewKeepsOrder ==
    sel.shape = "List" =>
        /\ ( /\ Available(sel.strat, features)
             /\ ImplBound(sel.strat, inner)
             /\ Assignable(sel.vty, ListOf(sel.strat), inner) ) => Running
        /\ Live => AsRefList(obj, mem) = made
        /\ Read => res.val = made
        /\ (Live /\ res.op = "push" /\ res.ok) => made[Len(made)] = res.val[1]

C2_Witness ==
    /\ Read
    /\ sel.shape = "List"
    /\ sel.strat.tag = "Heapless"
    /\ res.val = <<187, 170>>

\* C3: under Const<N> a List or Bytes value is an array of exactly N
\* elements in every state: an array of any other length (and any value that
\* is not an array) is rejected by the build, and no call changes the length.
C3_ConstExactLength ==
    (sel.strat.tag = "Const" /\ sel.shape \in {"List", "Bytes"}) =>
        /\ (sel.vty.kind = "Array" /\ sel.vty.n # sel.strat.n) => phase = "rejected"
        /\ Running => (sel.vty.kind = "Array" /\ sel.vty.n = sel.strat.n)
        /\ Live => /\ obj.kind = "Array"
                   /\ obj.len = sel.strat.n
                   /\ Len(View(sel.shape, obj, mem)) = sel.strat.n
        /\ Read => Len(res.val) = sel.strat.n
        /\ Running => res.op # "push"

C3_Witness ==
    /\ Read
    /\ sel.strat = Const(2)
    /\ sel.shape = "Bytes"
    /\ res.val = <<170, 187>>

C5_StrategiesFollowFeatures ==
    LET enabled == CASE sel.strat.tag = "Owned" -> features.alloc
                     [] sel.strat.tag = "Heapless" -> features.heapless
                     [] OTHER -> TRUE
    IN  /\ (Running => enabled)
        /\ ( /\ sel # NoSel
             /\ ImplBound(sel.strat, inner)
             /\ Assignable(sel.vty, ShapeTy(sel.strat, sel.shape), inner) )
              => (Running <=> enabled)
        /\ (phase = "rejected" => (obj = NoObj /\ res = NoRes))

C5_Witness ==
    /\ ~features.alloc
    /\ ~features.heapless
    /\ ValidInner
    /\ sel.strat = Owned
    /\ sel.shape = "Bytes"
    /\ sel.vty = Ty("Vec", "u8", 0, "-")
    /\ phase = "rejected"

\* C6 as stated: the contract itself admits only element types that are
\* both clonable and debug-printable.
C6_ContractRequiresCloneAndDebug ==
    phase \in {"declared", "running"} => (inner.clone /\ inner.debug)

\* C6 as amended: the contract itself requires the element type to be
\* debug-printable only, and a declaration is rejected exactly for lack of
\* that; each provided strategy requires clonable as well, so an
\* instantiation with an element type lacking either is rejected.
C6_ContractRequiresDebug ==
    /\ phase = "declared" => inner.debug
    /\ (phase = "rejected" /\ sel = NoSel) => ~inner.debug
    /\ Running => (inner.clone /\ inner.debug)
    /\ (sel # NoSel /\ ~(inner.clone /\ inner.debug)) => phase = "rejected"

C6_Witness ==
    /\ phase = "rejected"
    /\ inner.name = "DebugOnly"
    /\ sel.strat = Ref
    /\ sel.shape = "List"
    /\ Assignable(sel.vty, ListOf(Ref), inner)

\* C7: every available strategy provides all three shapes for every element
\* type within its bounds: each shape's type is defined and has the view the
\* contract demands of it, a value of that type is accepted, and the value
\* held is viewable as the sequence, text or bytes of its shape.
C7_AllThreeShapes ==
    LET target(sh, E) == CASE sh = "List" -> E.name
                           [] sh = "String" -> "str"
                           [] sh = "Bytes" -> "u8"
                           [] OTHER -> "none"
    IN  /\ \A S \in Strategies, E \in ElemTypes, sh \in Shapes :
              (Available(S, features) /\ ImplBound(S, E)) =>
                  /\ ShapeTy(S, sh) # NoTy
                  /\ ViewTarget(ShapeTy(S, sh), E) = target(sh, E)
        /\ ( /\ sel # NoSel
             /\ Available(sel.strat, features)
             /\ ImplBound(sel.strat, inner)
             /\ Assignable(sel.vty, ShapeTy(sel.strat, sel.shape), inner) ) => Running
        /\ Running => ViewTarget(sel.vty, inner) = target(sel.shape, inner)

C7_Witness ==
    /\ Read
    /\ sel.strat = Const(2)
    /\ sel.shape = "String"
    /\ inner.name = "unit"
    /\ res.val = <<233>>

\* C8: under Owned a String value built from a text is accepted, and the
\* read-only text view equals that text character for character.
C8_OwnedStringUnchanged ==
    (sel.strat = Owned /\ sel.shape = "String") =>
        /\ (features.alloc /\ ValidInner /\ sel.vty = Ty("String", "-", 0, "-")) => Running
        /\ Live => AsRefStr(obj, mem) = made
        /\ Read => res.val = made

C8_Witness ==
    /\ Read
    /\ sel.strat = Owned
    /\ sel.shape = "String"
    /\ obj.buf = <<97, 195, 169, 97>>
    /\ res.val = <<97, 233, 97>>

\* C9: under Heapless<N> the length of a List, String or Bytes value is at
\* most N in every state, and a push attempted when the length is N is
\* reported as a failure and leaves the value as it was.
C9_HeaplessBounded ==
    /\ []((Live /\ sel.strat.tag = "Heapless") =>
            /\ obj.len <= sel.strat.n
            /\ Len(obj.buf) = sel.strat.n
            /\ Len(View(sel.shape, obj, mem)) <= sel.strat.n)
    /\ [][(Live /\ sel.strat.tag = "Heapless" /\ obj.len = sel.strat.n /\ res'.op = "push")
            => (~res'.ok /\ obj' = obj /\ made' = made)]_vars

C9_Witness ==
    /\ Live
    /\ sel.strat = Heapless(2)
    /\ sel.shape = "List"
    /\ obj.len = 2
    /\ res.op = "push"
    /\ ~res.ok

\* C10: under Const<N> the String shape is the same static text reference
\* for every N, so a static text of any length is accepted and read back
\* unchanged, while the List and Bytes shapes are arrays of exactly N.
C10_ConstStringIgnoresN ==
    /\ \A n1 \in Ns, n2 \in Ns : StringOf(Const(n1)) = StringOf(Const(n2))
    /\ \A n \in Ns : /\ ListOf(Const(n)).kind = "Array" /\ ListOf(Const(n)).n = n
                     /\ BytesOf(Const(n)).kind = "Array" /\ BytesOf(Const(n)).n = n
    /\ (sel.strat.tag = "Const" /\ sel.shape = "String") =>
          /\ (ValidInner /\ sel.vty = Ty("Str", "-", 0, "static")) => Running
          /\ Live => (obj.kind = "Str" /\ mem.static /\ AsRefStr(obj, mem) = made)
          /\ Read => res.val = made

C10_Witness ==
    /\ Read
    /\ sel.strat = Const(2)
    /\ sel.shape = "String"
    /\ Len(res.val) = 3
====
